---- MODULE Spec2Model ----
(***************************************************************************)
(* Model of models.py: the Pytromino piece (block coordinates, rotation    *)
(* center, placed flag, validated_apply, place_at), pytromino_factory and  *)
(* the Holder.                                                             *)
(*                                                                         *)
(* Coordinates.  The block coordinates are Python ints and the rotation    *)
(* centers of I and O are the floats 0.5 and -0.5.  Every coordinate the   *)
(* program computes is a sum or difference of such numbers, so it is a     *)
(* multiple of one half, which binary floating point holds exactly.  The   *)
(* model stores every coordinate in half units: the Python value v is the  *)
(* integer 2*v.  Pt(x, y) is the Python tuple (x, y) of whole numbers.     *)
(***************************************************************************)
EXTENDS Integers, Sequences, FiniteSets, TLC

VARIABLES
    ptype,       \* Pytromino._type
    blocks,      \* Pytromino._blocks_pos, a list of (x, y)
    center_rot,  \* Pytromino._center_rot
    placed,      \* Pytromino._placed
    was_placed,  \* Pytromino._placed as the most recent call found it
    seen,        \* what the most recent call on the piece did, see Seen
    item,        \* Holder._item
    can_store,   \* Holder._can_store
    op,          \* the name of the most recent call
    ret,         \* what that call returned: "True", "False" or "None"
    raised,      \* the error that call raised, or "none"
    got,         \* the item the most recent get_item returned
    accepted,    \* the argument of the most recent store that did not raise
    recent,      \* the names of the latest holder calls, oldest first
    probe,       \* a point under repeated rotate_block_90_cw calls, see Rotate
    trip,        \* a shift to the right and back in progress, see ShiftRight
    asked,       \* the argument of the most recent pytromino_factory call
    listed,      \* the list the most recent get_blocks_pos returned, see GetBlocksPos
    stores,      \* stores accepted since the gate was last opened, up to MaxStores
    frame,       \* a validated_apply call under way, statement by statement, see Call
    turns        \* the rotations validated_apply has committed, modulo 4

\* what the specifications of single questions add to the two objects
aux == <<probe, trip, asked, listed, stores, frame, turns>>

\* aux without one of its variables
aux_but_probe == <<trip, asked, listed, stores, frame, turns>>
aux_but_trip == <<probe, asked, listed, stores, frame, turns>>
aux_but_asked == <<probe, trip, listed, stores, frame, turns>>
aux_but_listed == <<probe, trip, asked, stores, frame, turns>>
aux_but_stores == <<probe, trip, asked, listed, frame, turns>>
aux_but_frame == <<probe, trip, asked, listed, stores, turns>>
aux_but_turns == <<probe, trip, asked, listed, stores, frame>>

vars == <<ptype, blocks, center_rot, placed, was_placed, seen, item, can_store,
          op, ret, raised, got, accepted, recent, aux>>

-----------------------------------------------------------------------------
(* Bounds of the model *)

\* the caller of get_blocks_pos changes the list it got at most MaxEdits times
MaxEdits == 1

\* shift step counts are 1..MaxStep
MaxStep == 1
\* committed blocks stay in columns -1..MaxCoord and rows -1..MaxCoord-1
MaxCoord == 3
\* committed blocks stay within MaxReach half units of the rotation center
MaxReach == 4
\* the items stored in the holder are 1..MaxItem
MaxItem == 4
\* recent keeps the latest MaxRecent holder calls
MaxRecent == 3
\* stores counts the accepted stores up to MaxStores
MaxStores == 2

-----------------------------------------------------------------------------
(* Coordinates *)

Pt(x, y) == <<2 * x, 2 * y>>

Steps == 1..MaxStep

\* the board of the model; the smallest coordinate of the factory table is -1
InRange(pos) ==
    /\ pos[1] \in (0 - 2)..(2 * MaxCoord)
    /\ pos[2] \in (0 - 2)..(2 * MaxCoord - 2)

Abs(n) == IF n < 0 THEN 0 - n ELSE n

InReach(c, pos) ==
    /\ Abs(pos[1] - c[1]) <= MaxReach
    /\ Abs(pos[2] - c[2]) <= MaxReach

\* the piece states the model explores
Bounded(bs, c) ==
    /\ InRange(c)
    /\ \A i \in 1..Len(bs) : InRange(bs[i]) /\ InReach(c, bs[i])

-----------------------------------------------------------------------------
(* The piece *)

Types == {"I", "O", "L", "S", "T", "J", "Z"}

\* pytromino_factory: the block list of each type
factory_blocks(t) ==
    CASE t = "I" -> <<Pt(0, 0), Pt(-1, 0), Pt(1, 0), Pt(2, 0)>>
      [] t = "O" -> <<Pt(0, 0), Pt(0, -1), Pt(1, -1), Pt(1, 0)>>
      [] t = "L" -> <<Pt(0, 0), Pt(-1, 0), Pt(1, 0), Pt(1, -1)>>
      [] t = "S" -> <<Pt(0, 0), Pt(-1, 0), Pt(0, -1), Pt(1, -1)>>
      [] t = "T" -> <<Pt(0, 0), Pt(0, -1), Pt(-1, 0), Pt(1, 0)>>
      [] t = "J" -> <<Pt(0, 0), Pt(-1, -1), Pt(-1, 0), Pt(1, 0)>>
      [] t = "Z" -> <<Pt(0, 0), Pt(0, -1), Pt(-1, -1), Pt(1, 0)>>

\* factory_center with the center of I on the edge between two cells, (0.5, 0)
factory_center_on_edge(t) ==
    CASE t = "I" -> <<1, 0>>
      [] t = "O" -> <<1, -1>>
      [] OTHER -> Pt(0, 0)

\* pytromino_factory: the rotation center of each type; (0.5, 0.5) is <<1, 1>>
factory_center(t) ==
    CASE t = "I" -> <<1, 1>>
      [] t = "O" -> <<1, -1>>
      [] OTHER -> Pt(0, 0)

\* What a caller may hand to pytromino_factory: the members of Pytromino.Types
\* and values that equal none of them, such as the string 'T', None and 8
Tags == Types \cup {"'T'", "None", "8"}

\* pytromino_factory whose last branch takes every remaining tag
pytromino_factory_default_Z(pytromino_type) ==
    LET t == IF pytromino_type \in Types THEN pytromino_type ELSE "Z"
    IN  [raised |-> "none", type |-> t, blocks |-> factory_blocks(t),
         center_rot |-> factory_center(t), placed |-> FALSE]

\* pytromino_factory(pytromino_type): the piece Pytromino.__init__ builds from
\* the arguments of the branch taken, or the ValueError of the last branch
pytromino_factory(pytromino_type) ==
    IF pytromino_type \in Types
    THEN [raised |-> "none", type |-> pytromino_type,
          blocks |-> factory_blocks(pytromino_type),
          center_rot |-> factory_center(pytromino_type), placed |-> FALSE]
    ELSE [raised |-> "ValueError", type |-> "none", blocks |-> <<>>,
          center_rot |-> Pt(0, 0), placed |-> FALSE]

\* The transforms handed to validated_apply, as data.
shift_down_fn(steps) == [kind |-> "down", a |-> steps, b |-> 0]
\* shift_left_fn shifting to the right
shift_left_fn_rightwards(steps) == [kind |-> "right", a |-> steps, b |-> 0]

shift_left_fn(steps) == [kind |-> "left", a |-> steps, b |-> 0]
shift_right_fn(steps) == [kind |-> "right", a |-> steps, b |-> 0]
\* the bound method self.rotate_block_90_cw
rotate_fn == [kind |-> "rotate", a |-> 0, b |-> 0]
\* place_fn with the two components of the coordinate exchanged
place_fn_transposed(coordinate) ==
    [kind |-> "place", a |-> coordinate[2], b |-> coordinate[1]]

\* the lambda place_at builds from its coordinate
place_fn(coordinate) == [kind |-> "place", a |-> coordinate[1], b |-> coordinate[2]]

Fns ==
    {shift_down_fn(n) : n \in Steps} \cup {shift_left_fn(n) : n \in Steps}
        \cup {shift_right_fn(n) : n \in Steps} \cup {rotate_fn}

\* rotate_block_90_cw losing pos[0]: every point lands on the row of the center
rotate_block_90_cw_flat(c, pos) ==
    <<c[2] - pos[2] + c[1], c[2]>>

\* rotate_block_90_cw turning the other way
rotate_block_90_ccw(c, pos) ==
    <<pos[2] - c[2] + c[1], c[1] - pos[1] + c[2]>>

\* Pytromino.rotate_block_90_cw with self._center_rot = c
rotate_block_90_cw(c, pos) ==
    <<c[2] - pos[2] + c[1], pos[1] - c[1] + c[2]>>

\* fn(pos), where a bound rotate_block_90_cw reads the piece's center c
Apply(fn, c, pos) ==
    CASE fn.kind = "down" -> <<pos[1], pos[2] + 2 * fn.a>>
      [] fn.kind = "left" -> <<pos[1] - 2 * fn.a, pos[2]>>
      [] fn.kind = "right" -> <<pos[1] + 2 * fn.a, pos[2]>>
      [] fn.kind = "rotate" -> rotate_block_90_cw(c, pos)
      [] fn.kind = "place" -> <<pos[1] + fn.a, pos[2] + fn.b>>

\* The validators handed to validated_apply, as data.
always_true == [kind |-> "always_true", x |-> 0, y |-> 0]
\* lambda pos: pos[0] > 0
positive_x == [kind |-> "positive_x", x |-> 0, y |-> 0]
\* lambda pos: pos != cell: a board with one occupied cell
free_cell(cell) == [kind |-> "free_cell", x |-> cell[1], y |-> cell[2]]

Validators == {always_true, positive_x, free_cell(Pt(1, 0))}

Validate(validator, pos) ==
    CASE validator.kind = "always_true" -> TRUE
      [] validator.kind = "positive_x" -> pos[1] > 0
      [] validator.kind = "free_cell" -> pos # <<validator.x, validator.y>>

\* apply_loop with final_pos.insert(0, pos) for final_pos.append(pos)
RECURSIVE apply_loop_prepend(_, _, _, _, _, _)
apply_loop_prepend(bs, c, fn, validator, i, final_pos) ==
    IF i > Len(bs)
    THEN [returned |-> FALSE, final_pos |-> final_pos]
    ELSE LET pos == Apply(fn, c, bs[i])
         IN IF Validate(validator, pos)
            THEN apply_loop_prepend(bs, c, fn, validator, i + 1, <<pos>> \o final_pos)
            ELSE [returned |-> TRUE, final_pos |-> final_pos]

\* apply_loop with `continue` for `return False`: a rejected candidate is dropped
RECURSIVE apply_loop_skip(_, _, _, _, _, _)
apply_loop_skip(bs, c, fn, validator, i, final_pos) ==
    IF i > Len(bs)
    THEN [returned |-> FALSE, final_pos |-> final_pos]
    ELSE LET pos == Apply(fn, c, bs[i])
         IN IF Validate(validator, pos)
            THEN apply_loop_skip(bs, c, fn, validator, i + 1, Append(final_pos, pos))
            ELSE apply_loop_skip(bs, c, fn, validator, i + 1, final_pos)

\* The loop of validated_apply from block i on: the list final_pos when every
\* remaining candidate passes, and the early `return False` otherwise.
RECURSIVE apply_loop(_, _, _, _, _, _)
apply_loop(bs, c, fn, validator, i, final_pos) ==
    IF i > Len(bs)
    THEN [returned |-> FALSE, final_pos |-> final_pos]
    ELSE LET pos == Apply(fn, c, bs[i])
         IN IF Validate(validator, pos)
            THEN apply_loop(bs, c, fn, validator, i + 1, Append(final_pos, pos))
            ELSE [returned |-> TRUE, final_pos |-> final_pos]

\* validated_apply writing each accepted candidate into the list at once:
\* a rejection leaves the candidates accepted before it in place
validated_apply_in_place(bs, c, fn, is_rotation, validator) ==
    LET loop == apply_loop(bs, c, fn, validator, 1, <<>>)
    IN IF loop.returned
       THEN [blocks |-> loop.final_pos
                            \o SubSeq(bs, Len(loop.final_pos) + 1, Len(bs)),
             center_rot |-> c, ret |-> "False"]
       ELSE [blocks |-> loop.final_pos,
             center_rot |-> IF ~is_rotation THEN Apply(fn, c, c) ELSE c,
             ret |-> "True"]

\* validated_apply without the test of is_rotation
validated_apply_moves_center(bs, c, fn, is_rotation, validator) ==
    LET loop == apply_loop(bs, c, fn, validator, 1, <<>>)
    IN IF loop.returned
       THEN [blocks |-> bs, center_rot |-> c, ret |-> "False"]
       ELSE [blocks |-> loop.final_pos, center_rot |-> Apply(fn, c, c),
             ret |-> "True"]

\* Pytromino.validated_apply on a piece with blocks bs and center c:
\* the new blocks, the new center and the return value
validated_apply(bs, c, fn, is_rotation, validator) ==
    LET loop == apply_loop(bs, c, fn, validator, 1, <<>>)
    IN IF loop.returned
       THEN [blocks |-> bs, center_rot |-> c, ret |-> "False"]
       ELSE [blocks |-> loop.final_pos,
             center_rot |-> IF ~is_rotation THEN Apply(fn, c, c) ELSE c,
             ret |-> "True"]

\* place_at without the test of self._placed
place_at_again(bs, c, p, coordinate) ==
    LET r == validated_apply(bs, c, place_fn(coordinate), FALSE, always_true)
    IN [blocks |-> r.blocks, center_rot |-> r.center_rot, placed |-> TRUE]

\* place_at with `self._placed = not self._placed` on every call
place_at_toggle(bs, c, p, coordinate) ==
    IF ~p
    THEN LET r == validated_apply(bs, c, place_fn(coordinate), FALSE, always_true)
         IN [blocks |-> r.blocks, center_rot |-> r.center_rot, placed |-> TRUE]
    ELSE [blocks |-> bs, center_rot |-> c, placed |-> FALSE]

\* place_at handing is_rotation=True to validated_apply
place_at_as_rotation(bs, c, p, coordinate) ==
    IF ~p
    THEN LET r == validated_apply(bs, c, place_fn(coordinate), TRUE, always_true)
         IN [blocks |-> r.blocks, center_rot |-> r.center_rot, placed |-> TRUE]
    ELSE [blocks |-> bs, center_rot |-> c, placed |-> p]

\* Pytromino.place_at on a piece (bs, c, p): the new blocks, center and flag
place_at(bs, c, p, coordinate) ==
    IF ~p
    THEN LET r == validated_apply(bs, c, place_fn(coordinate), FALSE, always_true)
         IN [blocks |-> r.blocks, center_rot |-> r.center_rot, placed |-> TRUE]
    ELSE [blocks |-> bs, center_rot |-> c, placed |-> p]

\* the coordinates handed to place_at: those of the doctest and one more
PlaceCoords == {Pt(2, 2), Pt(1, 1), Pt(1, 2)}

\* the validator rejects one of the candidates fn makes of the current blocks
Rejected(fn, validator) ==
    \E i \in 1..Len(blocks) :
        ~Validate(validator, Apply(fn, center_rot, blocks[i]))

\* [fn(b) for b in blocks]
Image(fn) ==
    [i \in 1..Len(blocks) |-> Apply(fn, center_rot, blocks[i])]

Translated(pos, coordinate) ==
    <<pos[1] + coordinate[1], pos[2] + coordinate[2]>>

\* What a call on the piece did, as a caller that compares the piece before
\* and after the call sees it:
\*   rejected       the validator rejects a candidate of the old blocks
\*   is_rotation    the is_rotation argument
\*   kept           blocks, center_rot and placed are what they were
\*   imaged         blocks is now the list the old blocks were to become
\*   center_kept    center_rot is what it was
\*   center_imaged  center_rot is now what the old center_rot was to become
Seen(rejected, is_rotation, new_blocks, new_center) ==
    [rejected |-> rejected,
     is_rotation |-> is_rotation,
     kept |-> blocks' = blocks /\ center_rot' = center_rot /\ placed' = placed,
     imaged |-> blocks' = new_blocks,
     center_kept |-> center_rot' = center_rot,
     center_imaged |-> center_rot' = new_center]

NotSeen ==
    [rejected |-> FALSE, is_rotation |-> FALSE, kept |-> TRUE, imaged |-> FALSE,
     center_kept |-> TRUE, center_imaged |-> FALSE]

\* validated_apply that returns False at once on a placed piece
ValidatedApplyUnlessPlaced(fn, is_rotation, validator) ==
    \E r \in {IF placed
               THEN [blocks |-> blocks, center_rot |-> center_rot, ret |-> "False"]
               ELSE validated_apply(blocks, center_rot, fn, is_rotation, validator)} :
       /\ Bounded(r.blocks, r.center_rot)
       /\ blocks' = r.blocks
       /\ center_rot' = r.center_rot
       /\ ret' = r.ret
       /\ raised' = "none"
       /\ op' = "validated_apply"
       /\ was_placed' = placed
       /\ UNCHANGED <<ptype, placed, item, can_store, got, accepted, recent>>
       /\ seen' = Seen(Rejected(fn, validator), is_rotation, Image(fn),
                       Apply(fn, center_rot, center_rot))

\* a call t.validated_apply(fn, is_rotation, validator)
ValidatedApply(fn, is_rotation, validator) ==
    \E r \in {validated_apply(blocks, center_rot, fn, is_rotation, validator)} :
       /\ Bounded(r.blocks, r.center_rot)
       /\ blocks' = r.blocks
       /\ center_rot' = r.center_rot
       /\ ret' = r.ret
       /\ raised' = "none"
       /\ op' = "validated_apply"
       /\ was_placed' = placed
       /\ UNCHANGED <<ptype, placed, item, can_store, got, accepted, recent>>
       /\ seen' = Seen(Rejected(fn, validator), is_rotation, Image(fn),
                       Apply(fn, center_rot, center_rot))

\* a call t.place_at(coordinate)
PlaceAt(coordinate) ==
    \E r \in {place_at(blocks, center_rot, placed, coordinate)} :
       /\ Bounded(r.blocks, r.center_rot)
       /\ blocks' = r.blocks
       /\ center_rot' = r.center_rot
       /\ placed' = r.placed
       /\ ret' = "None"
       /\ raised' = "none"
       /\ op' = "place_at"
       /\ was_placed' = placed
       /\ seen' = Seen(FALSE, FALSE,
                       [i \in 1..Len(blocks) |-> Translated(blocks[i], coordinate)],
                       Translated(center_rot, coordinate))
       /\ UNCHANGED <<ptype, item, can_store, got, accepted, recent>>

\* a call t.is_placed()
IsPlaced ==
    /\ ret' = IF placed THEN "True" ELSE "False"
    /\ raised' = "none"
    /\ op' = "is_placed"
    /\ was_placed' = placed
    /\ seen' = NotSeen
    /\ UNCHANGED <<ptype, blocks, center_rot, placed, item, can_store, got,
                   accepted, recent>>

\* a statement t = pytromino_factory(tag): t is bound to the piece returned,
\* and stays bound to the piece it had when the call raises
Factory(tag) ==
    \E r \in {pytromino_factory(tag)} :
       /\ asked' = tag
       /\ op' = "pytromino_factory"
       /\ raised' = r.raised
       /\ ret' = IF r.raised = "none" THEN "Pytromino" ELSE "None"
       /\ IF r.raised = "none"
          THEN /\ ptype' = r.type
               /\ blocks' = r.blocks
               /\ center_rot' = r.center_rot
               /\ placed' = r.placed
          ELSE UNCHANGED <<ptype, blocks, center_rot, placed>>
       /\ was_placed' = placed
       /\ seen' = NotSeen
       /\ UNCHANGED <<item, can_store, got, accepted, recent>>

\* listed is [list, same_object, edits]: the elements of the list object the
\* caller got, whether that object is the one self._blocks_pos is bound to,
\* and how often the caller has changed it
NoList == [list |-> <<>>, same_object |-> FALSE, edits |-> 0]

\* get_blocks_pos handing out the list object of the piece itself
get_blocks_pos_live(bs) == [list |-> bs, same_object |-> TRUE]

\* Pytromino.get_blocks_pos: the slice self._blocks_pos[:] is a new list
\* object with the elements of bs
get_blocks_pos(bs) == [list |-> bs, same_object |-> FALSE]

\* a call lst = t.get_blocks_pos()
GetBlocksPos ==
    \E r \in {get_blocks_pos(blocks)} :
       /\ listed' = [list |-> r.list, same_object |-> r.same_object, edits |-> 0]
       /\ op' = "get_blocks_pos"
       /\ ret' = "list"
       /\ raised' = "none"
       /\ was_placed' = placed
       /\ seen' = NotSeen
       /\ UNCHANGED <<ptype, blocks, center_rot, placed, item, can_store, got,
                      accepted, recent>>

\* the element a caller puts into the list: a cell no block of the model is in
CallerCells == {Pt(9, 9)}

\* The caller changes the list object it holds to new_list; the piece sees
\* the change when self._blocks_pos is bound to that same object.
EditList(name, new_list) ==
    /\ listed.list # <<>>
    /\ listed.edits < MaxEdits
    /\ listed' = [listed EXCEPT !.list = new_list, !.edits = @ + 1]
    /\ blocks' = IF listed.same_object THEN new_list ELSE blocks
    /\ op' = name
    /\ ret' = "None"
    /\ raised' = "none"
    /\ was_placed' = placed
    /\ seen' = NotSeen
    /\ UNCHANGED <<ptype, center_rot, placed, item, can_store, got, accepted,
                   recent>>

\* lst.append(cell)
ListAppend(cell) == EditList("list.append", Append(listed.list, cell))

\* del lst[i]
ListDel(i) ==
    /\ i \in 1..Len(listed.list)
    /\ EditList("list.__delitem__",
                [j \in 1..(Len(listed.list) - 1) |->
                    IF j < i THEN listed.list[j] ELSE listed.list[j + 1]])

\* lst[i] = cell
ListSetItem(i, cell) ==
    /\ i \in 1..Len(listed.list)
    /\ EditList("list.__setitem__", [listed.list EXCEPT ![i] = cell])

\* validated_apply and place_at bind self._blocks_pos to the new list
\* final_pos when they commit, and leave every other list object alone
Rebound == [listed EXCEPT !.same_object = @ /\ blocks' = blocks]

\* frame is the activation of one validated_apply call: pc is the statement
\* it is at, i the index of the block the loop is at, final_pos the local
\* list, pre_blocks and pre_center the fields of the piece when the call
\* began, view_blocks and view_center the fields the validator found at its
\* latest invocation, placing whether place_at made the call
NoFrame ==
    [pc |-> "idle", fn |-> rotate_fn, is_rotation |-> FALSE,
     validator |-> always_true, i |-> 0, final_pos |-> <<>>,
     pre_blocks |-> <<>>, pre_center |-> Pt(0, 0),
     view_blocks |-> <<>>, view_center |-> Pt(0, 0), placing |-> FALSE]

\* the activation at the head of the loop
enter(bs, c, fn, is_rotation, validator, placing) ==
    [pc |-> "loop", fn |-> fn, is_rotation |-> is_rotation,
     validator |-> validator, i |-> 1, final_pos |-> <<>>,
     pre_blocks |-> bs, pre_center |-> c,
     view_blocks |-> <<>>, view_center |-> Pt(0, 0), placing |-> placing]

\* loop_step storing each accepted candidate in the list of the piece at once
loop_step_in_place(fr, bs, c) ==
    LET pos == Apply(fr.fn, c, bs[fr.i])
        at == [fr EXCEPT !.view_blocks = bs, !.view_center = c]
    IN IF Validate(fr.validator, pos)
       THEN [frame |-> [at EXCEPT !.final_pos = Append(@, pos), !.i = @ + 1],
             blocks |-> [bs EXCEPT ![fr.i] = pos], returned |-> FALSE]
       ELSE [frame |-> [at EXCEPT !.pc = "done"], blocks |-> bs,
             returned |-> TRUE]

\* One turn of the loop of validated_apply on a piece with the fields bs and
\* c: pos = fn(coord), the validator invoked on pos, then the append to
\* final_pos or the `return False`.
loop_step(fr, bs, c) ==
    LET pos == Apply(fr.fn, c, bs[fr.i])
        at == [fr EXCEPT !.view_blocks = bs, !.view_center = c]
    IN IF Validate(fr.validator, pos)
       THEN [frame |-> [at EXCEPT !.final_pos = Append(@, pos), !.i = @ + 1],
             blocks |-> bs, returned |-> FALSE]
       ELSE [frame |-> [at EXCEPT !.pc = "done"], blocks |-> bs,
             returned |-> TRUE]

\* what the steps below leave alone
held == <<ptype, was_placed, seen, item, can_store, raised, got, accepted, recent>>

\* t.validated_apply(fn, is_rotation, validator) is entered
Call(fn, is_rotation, validator) ==
    /\ frame.pc \in {"idle", "done"}
    /\ \E r \in {validated_apply(blocks, center_rot, fn, is_rotation, validator)} :
           Bounded(r.blocks, r.center_rot)
    /\ frame' = enter(blocks, center_rot, fn, is_rotation, validator, FALSE)
    /\ op' = "call"
    /\ UNCHANGED <<blocks, center_rot, placed, ret>>
    /\ UNCHANGED held

\* t.place_at(coordinate) on a piece not placed enters validated_apply
CallFromPlaceAt(coordinate) ==
    /\ frame.pc \in {"idle", "done"}
    /\ ~placed
    /\ \E r \in {place_at(blocks, center_rot, placed, coordinate)} :
           Bounded(r.blocks, r.center_rot)
    /\ frame' = enter(blocks, center_rot, place_fn(coordinate), FALSE,
                      always_true, TRUE)
    /\ op' = "call"
    /\ UNCHANGED <<blocks, center_rot, placed, ret>>
    /\ UNCHANGED held

\* one turn of the loop, with its invocation of the validator
LoopStep ==
    /\ frame.pc = "loop"
    /\ frame.i <= Len(blocks)
    /\ \E r \in {loop_step(frame, blocks, center_rot)} :
           /\ frame' = r.frame
           /\ blocks' = r.blocks
           /\ ret' = IF r.returned THEN "False" ELSE ret
    /\ op' = "validator"
    /\ UNCHANGED <<center_rot, placed>>
    /\ UNCHANGED held

\* the loop is over: if not is_rotation: self._center_rot = fn(self._center_rot)
AssignCenter ==
    /\ frame.pc = "loop"
    /\ frame.i > Len(blocks)
    /\ center_rot' = IF ~frame.is_rotation
                     THEN Apply(frame.fn, center_rot, center_rot)
                     ELSE center_rot
    /\ frame' = [frame EXCEPT !.pc = "assign_blocks"]
    /\ op' = "assign_center"
    /\ UNCHANGED <<blocks, placed, ret>>
    /\ UNCHANGED held

\* self._blocks_pos = final_pos
AssignBlocks ==
    /\ frame.pc = "assign_blocks"
    /\ blocks' = frame.final_pos
    /\ frame' = [frame EXCEPT !.pc = "return"]
    /\ op' = "assign_blocks"
    /\ UNCHANGED <<center_rot, placed, ret>>
    /\ UNCHANGED held

\* return True, and self._placed = True back in place_at
Return ==
    /\ frame.pc = "return"
    /\ ret' = "True"
    /\ placed' = (placed \/ frame.placing)
    /\ frame' = [frame EXCEPT !.pc = "done"]
    /\ op' = "return"
    /\ UNCHANGED <<blocks, center_rot>>
    /\ UNCHANGED held

\* The points handed to rotate_block_90_cw: whole and half coordinates
Points ==
    {<<x, y>> : x \in (0 - 2)..(2 * MaxCoord), y \in (0 - 2)..(2 * MaxCoord)}

\* probe is [start, pos, turns]: pos is what turns successive calls
\* pos = t.rotate_block_90_cw(pos) have made of the point start
NoProbe == [start |-> Pt(0, 0), pos |-> Pt(0, 0), turns |-> 0]

\* the caller takes a new point
TakePoint(p) ==
    /\ probe' = [start |-> p, pos |-> p, turns |-> 0]
    /\ op' = "take_point"
    /\ UNCHANGED <<ptype, blocks, center_rot, placed, was_placed, seen, item,
                   can_store, ret, raised, got, accepted, recent>>

\* a call pos = t.rotate_block_90_cw(pos), up to the four of a full turn
Rotate ==
    /\ probe.turns < 4
    /\ probe' = [start |-> probe.start,
                 pos |-> rotate_block_90_cw(center_rot, probe.pos),
                 turns |-> probe.turns + 1]
    /\ op' = "rotate_block_90_cw"
    /\ raised' = "none"
    /\ UNCHANGED <<ptype, blocks, center_rot, placed, was_placed, seen, item,
                   can_store, ret, got, accepted, recent>>

\* The step counts of a shift to the right and back: to the right, none, and
\* to the left
TripSteps == (0 - MaxStep)..MaxStep

\* trip is [pc, n, blocks, center_rot]: at pc = "shifted" the piece has been
\* shifted right by n from the blocks and the center recorded, at pc = "back"
\* it has then been shifted left by n
NoTrip == [pc |-> "idle", n |-> 0, blocks |-> <<>>, center_rot |-> Pt(0, 0)]

\* t.validated_apply(Pytromino.shift_right_fn(n))
ShiftRight(n) ==
    /\ trip.pc # "shifted"
    /\ ValidatedApply(shift_right_fn(n), FALSE, always_true)
    /\ trip' = [pc |-> "shifted", n |-> n, blocks |-> blocks,
                center_rot |-> center_rot]

\* t.validated_apply(Pytromino.shift_left_fn(n)) next after ShiftRight(n)
ShiftLeft ==
    /\ trip.pc = "shifted"
    /\ ValidatedApply(shift_left_fn(trip.n), FALSE, always_true)
    /\ trip' = [trip EXCEPT !.pc = "back"]

-----------------------------------------------------------------------------
(* The holder *)

\* Holder.__init__ sets self._item = None
None == 0

Items == 1..MaxItem

\* store without its assert
store_unchecked(h, it) ==
    [item |-> it, can_store |-> h.can_store, raised |-> "none"]

\* store that closes the gate behind the item it has taken
store_once(h, it) ==
    IF ~h.can_store
    THEN [item |-> h.item, can_store |-> h.can_store, raised |-> "AssertionError"]
    ELSE [item |-> it, can_store |-> FALSE, raised |-> "none"]

\* Holder.store on a holder h = [item, can_store]: the new fields and the
\* error raised; a failing assert leaves the fields as they were
store(h, it) ==
    IF ~h.can_store
    THEN [item |-> h.item, can_store |-> h.can_store, raised |-> "AssertionError"]
    ELSE [item |-> it, can_store |-> h.can_store, raised |-> "none"]

\* open as a toggle of the gate
open_toggle(h) == [item |-> h.item, can_store |-> ~h.can_store]

\* Holder.open
open(h) == [item |-> h.item, can_store |-> TRUE]

\* close that also empties the holder
close_clears(h) == [item |-> None, can_store |-> FALSE]

\* Holder.close
close(h) == [item |-> h.item, can_store |-> FALSE]

\* Holder.get_item
get_item(h) == h.item

\* Holder.is_open
is_open(h) == h.can_store

holder == [item |-> item, can_store |-> can_store]

\* recent with one more call
Recent(name) ==
    IF Len(recent) < MaxRecent
    THEN Append(recent, name)
    ELSE Append(Tail(recent), name)

\* a call holder.store(it)
Store(it) ==
    \E r \in {store(holder, it)} :
       /\ item' = r.item
       /\ can_store' = r.can_store
       /\ raised' = r.raised
       /\ accepted' = IF r.raised = "none" THEN it ELSE accepted
       /\ ret' = "None"
       /\ op' = "store"
       /\ recent' = Recent("store")
       /\ UNCHANGED <<ptype, blocks, center_rot, placed, was_placed, seen, got>>

\* a call holder.open()
Open ==
    \E r \in {open(holder)} :
       /\ item' = r.item
       /\ can_store' = r.can_store
       /\ raised' = "none"
       /\ ret' = "None"
       /\ op' = "open"
       /\ recent' = Recent("open")
       /\ UNCHANGED <<ptype, blocks, center_rot, placed, was_placed, seen, got, accepted>>

\* a call holder.close()
Close ==
    \E r \in {close(holder)} :
       /\ item' = r.item
       /\ can_store' = r.can_store
       /\ raised' = "none"
       /\ ret' = "None"
       /\ op' = "close"
       /\ recent' = Recent("close")
       /\ UNCHANGED <<ptype, blocks, center_rot, placed, was_placed, seen, got, accepted>>

\* a call holder.get_item()
GetItem ==
    /\ got' = get_item(holder)
    /\ raised' = "none"
    /\ ret' = "None"
    /\ op' = "get_item"
    /\ recent' = Recent("get_item")
    /\ UNCHANGED <<ptype, blocks, center_rot, placed, was_placed, seen, item, can_store,
                   accepted>>

\* a call holder.is_open()
IsOpen ==
    /\ ret' = IF is_open(holder) THEN "True" ELSE "False"
    /\ raised' = "none"
    /\ op' = "is_open"
    /\ recent' = Recent("is_open")
    /\ UNCHANGED <<ptype, blocks, center_rot, placed, was_placed, seen, item, can_store,
                   got, accepted>>

-----------------------------------------------------------------------------
(* The specifications *)

\* pytromino_factory(t), with an empty Holder beside it
Init ==
    /\ ptype \in Types
    /\ blocks = factory_blocks(ptype)
    /\ center_rot = factory_center(ptype)
    /\ placed = FALSE
    /\ was_placed = FALSE
    /\ seen = NotSeen
    /\ item = None
    /\ can_store = TRUE
    /\ op = "init"
    /\ ret = "None"
    /\ raised = "none"
    /\ got = None
    /\ accepted = None
    /\ recent = <<>>
    /\ probe = NoProbe
    /\ trip = NoTrip
    /\ asked = ptype
    /\ listed = NoList
    /\ stores = 0
    /\ frame = NoFrame
    /\ turns = 0

Next ==
    \/ \E fn \in Fns, is_rotation \in BOOLEAN, validator \in Validators :
           ValidatedApply(fn, is_rotation, validator) /\ UNCHANGED aux
    \/ \E coordinate \in PlaceCoords : PlaceAt(coordinate) /\ UNCHANGED aux
    \/ IsPlaced /\ UNCHANGED aux

\* the calls on a piece
Spec == Init /\ [][Next]_vars

\* stores after one more store, which raised what the primed raised says
Stored == IF raised' = "none" /\ stores < MaxStores THEN stores + 1 ELSE stores

NextHolder ==
    \/ \E it \in Items : Store(it) /\ stores' = Stored /\ UNCHANGED aux_but_stores
    \/ Open /\ stores' = 0 /\ UNCHANGED aux_but_stores
    \/ Close /\ UNCHANGED aux
    \/ GetItem /\ UNCHANGED aux
    \/ IsOpen /\ UNCHANGED aux

\* Holder(), with one piece beside it
InitHolder ==
    /\ Init
    /\ ptype = "T"

\* the calls on a holder
SpecHolder == InitHolder /\ [][NextHolder]_vars

NextRotate ==
    \/ \E p \in Points : TakePoint(p) /\ UNCHANGED aux_but_probe
    \/ Rotate /\ UNCHANGED aux_but_probe
    \/ \E coordinate \in PlaceCoords :
           PlaceAt(coordinate) /\ probe' = NoProbe /\ UNCHANGED aux_but_probe

\* the calls that bring a piece somewhere before it is shifted right and back
NextShift ==
    \/ \E n \in TripSteps : ShiftRight(n) /\ UNCHANGED aux_but_trip
    \/ ShiftLeft /\ UNCHANGED aux_but_trip
    \/ \E validator \in Validators :
           /\ trip.pc # "shifted"
           /\ ValidatedApply(rotate_fn, TRUE, validator)
           /\ trip' = NoTrip
           /\ UNCHANGED aux_but_trip
    \/ \E n \in Steps, validator \in Validators :
           /\ trip.pc # "shifted"
           /\ ValidatedApply(shift_down_fn(n), FALSE, validator)
           /\ trip' = NoTrip
           /\ UNCHANGED aux_but_trip
    \/ \E coordinate \in PlaceCoords :
           /\ trip.pc # "shifted"
           /\ PlaceAt(coordinate)
           /\ trip' = NoTrip
           /\ UNCHANGED aux_but_trip

\* shifts to the right and back, of a piece anywhere on the board
SpecShift == Init /\ [][NextShift]_vars

\* pieces made one after the other, each shifted down and placed
NextFactory ==
    \/ \E tag \in Tags : Factory(tag) /\ UNCHANGED aux_but_asked
    \/ \E n \in Steps, validator \in Validators :
           /\ ValidatedApply(shift_down_fn(n), FALSE, validator)
           /\ UNCHANGED aux
    \/ \E coordinate \in PlaceCoords : PlaceAt(coordinate) /\ UNCHANGED aux
    \/ IsPlaced /\ UNCHANGED aux

\* the calls of pytromino_factory
SpecFactory == Init /\ [][NextFactory]_vars

NextCopy ==
    \/ GetBlocksPos /\ UNCHANGED aux_but_listed
    \/ \E cell \in CallerCells : ListAppend(cell) /\ UNCHANGED aux_but_listed
    \/ \E i \in 1..4 : ListDel(i) /\ UNCHANGED aux_but_listed
    \/ \E i \in 1..4, cell \in CallerCells :
           ListSetItem(i, cell) /\ UNCHANGED aux_but_listed
    \/ \E validator \in {always_true, positive_x} :
           /\ ValidatedApply(rotate_fn, TRUE, validator)
           /\ listed' = Rebound
           /\ UNCHANGED aux_but_listed
    \/ \E validator \in {always_true, positive_x} :
           /\ ValidatedApply(shift_down_fn(1), FALSE, validator)
           /\ listed' = Rebound
           /\ UNCHANGED aux_but_listed
    \/ \E coordinate \in PlaceCoords :
           /\ PlaceAt(coordinate)
           /\ listed' = Rebound
           /\ UNCHANGED aux_but_listed

\* a caller that reads the blocks, changes the list it got and moves the piece
SpecCopy == Init /\ [][NextCopy]_vars

NextSteps ==
    \/ \E validator \in Validators :
           Call(rotate_fn, TRUE, validator) /\ UNCHANGED aux_but_frame
    \/ \E fn \in Fns \ {rotate_fn}, validator \in Validators :
           Call(fn, FALSE, validator) /\ UNCHANGED aux_but_frame
    \/ \E coordinate \in PlaceCoords :
           CallFromPlaceAt(coordinate) /\ UNCHANGED aux_but_frame
    \/ LoopStep /\ UNCHANGED aux_but_frame
    \/ AssignCenter /\ UNCHANGED aux_but_frame
    \/ AssignBlocks /\ UNCHANGED aux_but_frame
    \/ Return /\ UNCHANGED aux_but_frame

\* validated_apply statement by statement
SpecSteps == Init /\ [][NextSteps]_vars

\* the shifts with is_rotation=False, the rotation of the piece about its own
\* center with is_rotation=True, and place_at
NextRigid ==
    \/ \E fn \in Fns \ {rotate_fn}, validator \in Validators :
           /\ ValidatedApply(fn, FALSE, validator)
           /\ UNCHANGED aux
    \/ \E validator \in Validators :
           /\ ValidatedApply(rotate_fn, TRUE, validator)
           /\ turns' = IF ret' = "True" THEN (turns + 1) % 4 ELSE turns
           /\ UNCHANGED aux_but_turns
    \/ \E coordinate \in PlaceCoords : PlaceAt(coordinate) /\ UNCHANGED aux

\* the moves of a game
SpecRigid == Init /\ [][NextRigid]_vars

\* rotate_block_90_cw on the points of the board
SpecRotate == Init /\ [][NextRotate]_vars

-----------------------------------------------------------------------------
(* Properties of rotate_block_90_cw *)

\* C11: rotate_block_90_cw(pos) is (c[1] - pos[1] + c[0], pos[0] - c[0] + c[1])
\* for the center c, on whole and on half coordinates: it leaves c where it
\* is, and four successive calls give back the point they started from.
QuarterTurnAboutCenter ==
    /\ (op = "rotate_block_90_cw" /\ probe.turns = 1) =>
           /\ probe.pos[1] = center_rot[2] - probe.start[2] + center_rot[1]
           /\ probe.pos[2] = probe.start[1] - center_rot[1] + center_rot[2]
    /\ (op = "rotate_block_90_cw" /\ probe.start = center_rot) =>
           probe.pos = center_rot
    /\ (op = "rotate_block_90_cw" /\ probe.turns = 4) =>
           probe.pos = probe.start

\* the fourth call on a point off the half-coordinate center of a placed I
QuarterTurnWitness ==
    /\ op = "rotate_block_90_cw"
    /\ probe.turns = 4
    /\ ptype = "I"
    /\ placed
    /\ probe.start # center_rot
    /\ probe.pos = probe.start

(* Properties of the shape *)

\* an offset turned by a quarter turn the way rotate_block_90_cw turns,
\* clockwise on a board whose y grows downwards
QuarterTurn(d) == <<0 - d[2], d[1]>>

\* an offset after k quarter turns
RECURSIVE Turned(_, _)
Turned(d, k) == IF k = 0 THEN d ELSE Turned(QuarterTurn(d), k - 1)

Offset(pos, c) == <<pos[1] - c[1], pos[2] - c[2]>>

\* C18: under place_at, the shifts with is_rotation=False and the rotation of
\* the piece with is_rotation=True, whatever the validators do, the offsets of
\* the blocks from center_rot are, in order, the offsets of the factory blocks
\* from the factory center turned clockwise by as many quarter turns as
\* rotations were committed, modulo 4.
ShapeIsRigid ==
    /\ Len(blocks) = Len(factory_blocks(ptype))
    /\ \A i \in 1..Len(blocks) :
           Offset(blocks[i], center_rot) =
               Turned(Offset(factory_blocks(ptype)[i], factory_center(ptype)), turns)

\* a placed S, turned three times and then refused a fourth turn
RigidWitness ==
    /\ ptype = "S"
    /\ placed
    /\ turns = 3
    /\ op = "validated_apply"
    /\ seen.is_rotation
    /\ ret = "False"
    /\ center_rot # Pt(0, 0)

\* C19: the four blocks of a piece are pairwise distinct in every state that
\* place_at and validated_apply with the shifts and the rotation of the piece
\* reach, whatever the validators accept or refuse.
BlocksNeverOverlap ==
    \A i, j \in 1..Len(blocks) : i # j => blocks[i] # blocks[j]

\* a placed O right after a committed rotation, on four cells
NoOverlapWitness ==
    /\ ptype = "O"
    /\ placed
    /\ op = "validated_apply"
    /\ seen.is_rotation
    /\ ret = "True"
    /\ ~seen.kept
    /\ Cardinality({blocks[i] : i \in 1..Len(blocks)}) = 4

\* a coordinate in half units is a whole number / an odd multiple of one half
IsWhole(v) == v % 2 = 0
IsOddHalf(v) == v % 2 = 1

\* C20: under shifts by whole steps, rotations about the center of the piece
\* and place_at with a whole coordinate, both components of every block stay
\* whole numbers; both components of center_rot stay whole for L, S, T, J, Z
\* and odd multiples of one half for I and O.
BlocksStayOnGrid ==
    /\ \A i \in 1..Len(blocks) : IsWhole(blocks[i][1]) /\ IsWhole(blocks[i][2])
    /\ IF ptype \in {"I", "O"}
       THEN IsOddHalf(center_rot[1]) /\ IsOddHalf(center_rot[2])
       ELSE IsWhole(center_rot[1]) /\ IsWhole(center_rot[2])

\* an I turned about its center (0.5, 0.5) into the column x = 1
OnGridWitness ==
    /\ ptype = "I"
    /\ op = "validated_apply"
    /\ seen.is_rotation
    /\ ret = "True"
    /\ center_rot = <<1, 1>>
    /\ blocks = <<Pt(1, 0), Pt(1, -1), Pt(1, 1), Pt(1, 2)>>

-----------------------------------------------------------------------------
(* Properties of the statements of validated_apply *)

\* C16: at every invocation of the validator inside one validated_apply call
\* the blocks and the center_rot of the piece are those the call began with;
\* center_rot and blocks are assigned only after the candidate of the last
\* block has been accepted, so the validator never sees a piece in part
\* transformed.
ValidatorSeesPreCallPiece ==
    /\ op = "validator" =>
           /\ frame.view_blocks = frame.pre_blocks
           /\ frame.view_center = frame.pre_center
    /\ frame.pc = "loop" =>
           /\ blocks = frame.pre_blocks
           /\ center_rot = frame.pre_center
    /\ (frame.pc # "idle" /\ (blocks # frame.pre_blocks \/ center_rot # frame.pre_center)) =>
           /\ frame.pc \in {"assign_blocks", "return", "done"}
           /\ Len(frame.final_pos) = Len(frame.pre_blocks)
           /\ \A i \in 1..Len(frame.final_pos) :
                  Validate(frame.validator, frame.final_pos[i])

\* the validator has refused the fourth candidate of an L shifted down, after
\* it accepted three
ValidatorFourthWitness ==
    /\ op = "validator"
    /\ ptype = "L"
    /\ frame.pc = "done"
    /\ ret = "False"
    /\ frame.i = 4
    /\ Len(frame.final_pos) = 3
    /\ frame.view_blocks = blocks

-----------------------------------------------------------------------------
(* Properties of get_blocks_pos *)

\* C14: the list get_blocks_pos returns is a copy of its own: appending to it,
\* deleting from it and replacing its elements never changes the blocks of the
\* piece, and a later validated_apply or place_at never changes that list.
ReturnedListIsIndependent ==
    [][/\ op' \in {"list.append", "list.__delitem__", "list.__setitem__"} =>
            blocks' = blocks
       /\ op' \in {"validated_apply", "place_at"} =>
            listed'.list = listed.list]_vars

\* the caller has changed a list the piece has since moved away from
ReturnedListWitness ==
    /\ op = "list.__setitem__"
    /\ listed.edits = 1
    /\ Len(listed.list) = 4
    /\ listed.list[2] = Pt(9, 9)
    /\ listed.list[1] = Pt(0, 0)
    /\ blocks[1] = Pt(1, 1)
    /\ placed

-----------------------------------------------------------------------------
(* Properties of pytromino_factory *)

\* the shape table: block offsets and rotation center, in whole and half units
ShapeOffsets ==
    [I |-> <<Pt(0, 0), Pt(-1, 0), Pt(1, 0), Pt(2, 0)>>,
     O |-> <<Pt(0, 0), Pt(0, -1), Pt(1, -1), Pt(1, 0)>>,
     L |-> <<Pt(0, 0), Pt(-1, 0), Pt(1, 0), Pt(1, -1)>>,
     S |-> <<Pt(0, 0), Pt(-1, 0), Pt(0, -1), Pt(1, -1)>>,
     T |-> <<Pt(0, 0), Pt(0, -1), Pt(-1, 0), Pt(1, 0)>>,
     J |-> <<Pt(0, 0), Pt(-1, -1), Pt(-1, 0), Pt(1, 0)>>,
     Z |-> <<Pt(0, 0), Pt(0, -1), Pt(-1, -1), Pt(1, 0)>>]

ShapeCenter ==
    [I |-> <<1, 1>>, O |-> <<1, -1>>, L |-> <<0, 0>>, S |-> <<0, 0>>,
     T |-> <<0, 0>>, J |-> <<0, 0>>, Z |-> <<0, 0>>]

\* C13: pytromino_factory returns for each of I, O, L, S, T, J, Z a new
\* unplaced piece of that type with the offsets and the center of the shape
\* table, exactly one block being (0, 0); for any other tag it raises an error
\* and returns no piece.
FactoryFollowsShapeTable ==
    op = "pytromino_factory" =>
        IF asked \in {"I", "O", "L", "S", "T", "J", "Z"}
        THEN /\ raised = "none"
             /\ ret = "Pytromino"
             /\ ptype = asked
             /\ blocks = ShapeOffsets[asked]
             /\ center_rot = ShapeCenter[asked]
             /\ ~placed
             /\ Cardinality({i \in 1..Len(blocks) : blocks[i] = Pt(0, 0)}) = 1
        ELSE /\ raised = "ValueError"
             /\ ret = "None"

\* an O made while the caller held a placed piece
FactoryWitness ==
    /\ op = "pytromino_factory"
    /\ asked = "O"
    /\ was_placed
    /\ ~placed
    /\ center_rot = <<1, -1>>

\* the string 'T' refused while the caller held a placed piece, which it keeps
FactoryRaisesWitness ==
    /\ op = "pytromino_factory"
    /\ asked = "'T'"
    /\ raised = "ValueError"
    /\ placed

\* C12: shift_right_fn(n) and then shift_left_fn(n), each through
\* validated_apply with is_rotation=False and the default validator, bring
\* the piece back to the blocks, in their order, and to the center_rot it had.
ShiftRoundTrip ==
    trip.pc = "back" =>
        /\ blocks = trip.blocks
        /\ center_rot = trip.center_rot

\* an O placed at (1, 1), with its half-coordinate center, shifted by one and back
ShiftRoundTripWitness ==
    /\ trip.pc = "back"
    /\ trip.n = 1
    /\ op = "validated_apply"
    /\ ret = "True"
    /\ ptype = "O"
    /\ placed
    /\ blocks[1] = Pt(1, 1)
    /\ center_rot = <<3, 1>>

-----------------------------------------------------------------------------
(* Properties of validated_apply *)

\* C1: a validated_apply call in which the validator rejects at least one
\* transformed block returns False, raises nothing and leaves blocks,
\* center_rot and placed as they were, for every transform, either value of
\* is_rotation and every validator.
RejectedApplyChangesNothing ==
    (op = "validated_apply" /\ seen.rejected)
        => (ret = "False" /\ raised = "none" /\ seen.kept)

\* a moved piece has just had a transform rejected
RejectedApplyWitness ==
    /\ op = "validated_apply"
    /\ seen.rejected
    /\ ret = "False"
    /\ blocks # factory_blocks(ptype)
    /\ center_rot # factory_center(ptype)

\* C2: a validated_apply call in which every transformed block passes the
\* validator returns True and makes blocks the list of fn(b) for the old
\* blocks b, of the same length and in the same order.
AcceptedApplyCommitsImage ==
    (op = "validated_apply" /\ ~seen.rejected)
        => (ret = "True" /\ seen.imaged)

\* the T piece right after the accepted right shift of the doctest
AcceptedApplyWitness ==
    /\ op = "validated_apply"
    /\ ~seen.rejected
    /\ ret = "True"
    /\ ptype = "T"
    /\ blocks = <<Pt(1, 0), Pt(1, -1), Pt(0, 0), Pt(2, 0)>>
    /\ center_rot = Pt(1, 0)

\* C3: a validated_apply call with is_rotation=True leaves center_rot as it
\* was, accepted or rejected; an accepted call with is_rotation=False sets
\* center_rot to fn(center_rot) for the fn it applied to the blocks.
CenterFollowsIsRotation ==
    op = "validated_apply"
        => /\ seen.is_rotation => seen.center_kept
           /\ (~seen.is_rotation /\ ~seen.rejected) => seen.center_imaged

\* an accepted call with is_rotation=True has moved the blocks of the S piece
\* one step to the right and has left the center where it was
CenterKeptWitness ==
    /\ op = "validated_apply"
    /\ seen.is_rotation
    /\ ret = "True"
    /\ ptype = "S"
    /\ blocks = <<Pt(1, 0), Pt(0, 0), Pt(1, -1), Pt(2, -1)>>
    /\ center_rot = Pt(0, 0)

-----------------------------------------------------------------------------
(* Properties of place_at and of the placed flag *)

\* C17: validated_apply does not look at placed: on a placed piece a call whose
\* candidates all pass the validator commits the new blocks, and the new
\* center_rot when is_rotation is False, and returns True, the piece staying
\* placed; of the calls that move a piece only place_at is off after placement.
PlacedPieceStillMoves ==
    /\ (op = "validated_apply" /\ was_placed /\ ~seen.rejected) =>
           /\ ret = "True"
           /\ seen.imaged
           /\ ~seen.is_rotation => seen.center_imaged
           /\ placed
    /\ (op = "place_at" /\ was_placed) => (seen.kept /\ ~seen.imaged)

\* a placed T has just been shifted from where place_at((1, 1)) put it
PlacedPieceMovedWitness ==
    /\ op = "validated_apply"
    /\ was_placed
    /\ ~seen.rejected
    /\ ~seen.is_rotation
    /\ ~seen.kept
    /\ ret = "True"
    /\ ptype = "T"
    /\ blocks[1] # Pt(1, 1)
    /\ center_rot = blocks[1]

\* C4: a place_at call on a placed piece, with any coordinate, raises nothing
\* and leaves blocks, center_rot and placed as they were, so a second place_at
\* ends in the state the first one made.
PlaceAtOnlyOnce ==
    (op = "place_at" /\ was_placed) => (raised = "none" /\ seen.kept)

\* place_at has just been called on a piece that was placed already
PlaceAtAgainWitness ==
    /\ op = "place_at"
    /\ was_placed
    /\ placed

\* C5: a place_at call on an unplaced piece adds the coordinate to every
\* block, in the original order, and to center_rot, and sets placed; the
\* factory S piece placed at (2, 2) has blocks [(2,2),(1,2),(2,1),(3,1)] and
\* center (2, 2).
FirstPlaceAtTranslates ==
    /\ (op = "place_at" /\ ~was_placed)
           => (seen.imaged /\ seen.center_imaged /\ placed)
    /\ place_at(factory_blocks("S"), factory_center("S"), FALSE, Pt(2, 2))
           = [blocks |-> <<Pt(2, 2), Pt(1, 2), Pt(2, 1), Pt(3, 1)>>,
              center_rot |-> Pt(2, 2), placed |-> TRUE]

\* the S piece of the doctest right after its first place_at
FirstPlaceAtWitness ==
    /\ op = "place_at"
    /\ ~was_placed
    /\ placed
    /\ ptype = "S"
    /\ blocks = <<Pt(2, 2), Pt(1, 2), Pt(2, 1), Pt(3, 1)>>
    /\ center_rot = Pt(2, 2)

\* C6: placed is False on a new piece, no call other than place_at changes
\* it, and no call at all makes it False again.
PlacedIsOneWay ==
    /\ op = "init" => ~placed
    /\ placed # was_placed => op = "place_at"
    /\ was_placed => placed

\* a placed piece has been moved by validated_apply and is placed still
PlacedStaysWitness ==
    /\ op = "validated_apply"
    /\ ret = "True"
    /\ ~seen.kept
    /\ was_placed
    /\ placed

\* C7: the blocks list of a factory piece has exactly 4 elements in every
\* reachable state.
AlwaysFourBlocks == Len(blocks) = 4

\* a placed piece has just had a transform rejected
FourBlocksWitness ==
    /\ op = "validated_apply"
    /\ ret = "False"
    /\ placed
    /\ Len(blocks) = 4

-----------------------------------------------------------------------------
(* Properties of the holder *)

\* C8: store on a closed holder fails its assert and leaves the item and the
\* gate as they were; store on an open holder raises nothing.
StoreNeedsOpenGate ==
    [][\A it \in Items :
          Store(it)
              => IF can_store
                 THEN raised' = "none"
                 ELSE /\ raised' = "AssertionError"
                      /\ item' = item
                      /\ can_store' = can_store]_vars

\* a store has just failed on a closed holder that holds an item
StoreRefusedWitness ==
    /\ op = "store"
    /\ raised = "AssertionError"
    /\ ~can_store
    /\ item # None

\* C15 as stated: after one store has been accepted, no further store is
\* accepted until open() is called again; a new holder counts as opened.
StoreOncePerGateOpen == stores <= 1

\* C15, amended: a store is accepted exactly when the gate is open and leaves
\* the gate open, so an open holder accepts store after store, each replacing
\* the held item, until close() is called.
StoreLeavesGateOpen ==
    /\ (op = "store" /\ raised = "none") => (can_store /\ item = accepted)
    /\ (op = "store" /\ raised = "AssertionError") => ~can_store
    /\ stores >= 1 => item # None

\* a second store accepted with no open() since the first
SecondStoreWitness ==
    /\ stores = 2
    /\ recent = <<"open", "store", "store">>
    /\ raised = "none"
    /\ can_store
    /\ item = accepted

\* C9: the holder holds, and get_item returns, the argument of the most
\* recent store that was accepted, or None when there was none, whether the
\* gate is open or closed.
HeldItemIsLastAccepted ==
    /\ item = accepted
    /\ op = "get_item" => got = accepted

\* get_item on a closed holder has returned the item stored before the close
GetItemClosedWitness ==
    /\ op = "get_item"
    /\ ~can_store
    /\ got # None
    /\ recent = <<"store", "close", "get_item">>

\* C10: a new holder is open; the gate is open after every open() and closed
\* after every close(), whatever it was before, so a second open() or close()
\* changes nothing, is_open() reports the gate, and a store that follows an
\* open() is accepted.
GateFollowsOpenClose ==
    /\ [](op = "init" => can_store)
    /\ [](op = "open" => can_store)
    /\ [](op = "close" => ~can_store)
    /\ [][(op = "open" /\ Open) => UNCHANGED <<item, can_store>>]_vars
    /\ [][(op = "close" /\ Close) => UNCHANGED <<item, can_store>>]_vars
    /\ [][(op = "open" /\ IsOpen) => ret' = "True"]_vars
    /\ [][(op = "close" /\ IsOpen) => ret' = "False"]_vars
    /\ [][\A it \in Items :
             (op = "open" /\ Store(it)) => (raised' = "none" /\ item' = it)]_vars

\* a store has been accepted after a close() and an open()
StoreAfterReopenWitness ==
    /\ recent = <<"close", "open", "store">>
    /\ raised = "none"
    /\ item # None

====
